---- MODULE Spec2Model ----
(***************************************************************************)
(* Model of the deduplication and canonicalization pipeline of             *)
(* redflags-historical: src/drop_double.py (clean_and_deduplicate) followed *)
(* by src/convert_parquet.py (convert_to_parquet).                          *)
(*                                                                         *)
(* Text is a sequence of one-character strings, so that concatenation,     *)
(* the "|" separator and digit-by-digit decimal parsing are computed and   *)
(* not assumed.  An optional value is a tuple: << >> is null, <<v>> is the *)
(* value v.                                                                *)
(*                                                                         *)
(* Both scripts are polars expressions; the model follows the documented   *)
(* behaviour of the calls as they are written in the source:               *)
(*   - comparisons and | & ~ on null follow Kleene logic, filter() keeps   *)
(*     the rows whose predicate is true, when() takes a null condition as  *)
(*     false;                                                              *)
(*   - concat_str() (ignore_nulls left False) is null when a part is null; *)
(*   - cast() is strict: a text that is no decimal literal, or whose       *)
(*     integer digits do not fit precision - scale, raises; fractional     *)
(*     digits beyond the scale are cut off without an error;               *)
(*   - sort() is called with nulls_last and maintain_order left False:     *)
(*     nulls come first in every sort column, ascending or descending,     *)
(*     and rows that compare equal come out in any order;                  *)
(*   - unique() is called with maintain_order left False: null keys form   *)
(*     one group and the kept rows come out in any order.                  *)
(*   - when/then/otherwise computes both branches on the whole column and  *)
(*     selects afterwards, so a strict cast inside a branch raises on any  *)
(*     row of the column, selected or not;                                 *)
(*   - a column named by pl.col() that the frame lacks raises;             *)
(*   - select() of literals only yields one row, whatever the frame holds. *)
(* The frames of the pipeline carry the identity and value columns of the  *)
(* two files; every other schema column is absent from the input and is    *)
(* filled by the missing-column branch of convert_to_parquet.              *)
(*                                                                         *)
(* Spec is the pipeline on the two files; SpecDedup is the dedup stage on  *)
(* files whose header may lack a column; SpecConvert is the conversion on  *)
(* any file, with columns missing, unknown or reordered; SpecMain is the   *)
(* main() of the two scripts on files that may be missing; SpecDownload    *)
(* is the snapshot downloader over several runs on one output directory.   *)
(***************************************************************************)
EXTENDS Integers, Sequences, FiniteSets, TLC

VARIABLES dataset_type, df, pc, df_clean, deduped, rededuped, df_final,
          columns, dtypes, sort_by, final_columns, report,
          script, inputs, outputs, processed,
          archive, files, snapshots, timestamp_counts, position, runs,
          named, skipped

\* The state of one stage on one file.
stage_vars ==
  <<dataset_type, df, df_clean, deduped, rededuped, df_final, columns, dtypes,
    sort_by, final_columns, report>>

\* The state of a main() on the two files: the script, the input files
\* (null when missing), the output files written, the files whose rows were
\* processed.
main_vars == <<script, inputs, outputs, processed>>

\* The state of the snapshot downloader: the archive, the output directory,
\* the snapshots of the run, its counters, and the record of the names given
\* and the snapshots skipped so far.
download_vars ==
  <<archive, files, snapshots, timestamp_counts, position, runs, named, skipped>>

vars == <<stage_vars, pc, main_vars, download_vars>>

\* Largest number of rows of an input file.
MaxRows == 2

----------------------------------------------------------------------------
(* Optional values and three-valued (Kleene) logic of polars expressions.  *)

Null == << >>
Some(v) == <<v>>
IsNull(o) == o = << >>
Get(o) == o[1]

\* fill_null(v): replace a null by v.
fill_null(o, v) == IF IsNull(o) THEN Some(v) ELSE o

\* expr.is_null(): never null itself.
is_null(o) == Some(IsNull(o))

\* expr == literal: null when the operand is null.
eq_lit(o, s) == IF IsNull(o) THEN Null ELSE Some(Get(o) = s)

\* a | b on optional booleans.
or3(a, b) ==
  IF a = Some(TRUE) \/ b = Some(TRUE) THEN Some(TRUE)
  ELSE IF IsNull(a) \/ IsNull(b) THEN Null
  ELSE Some(FALSE)

\* a & b on optional booleans.
and3(a, b) ==
  IF a = Some(FALSE) \/ b = Some(FALSE) THEN Some(FALSE)
  ELSE IF IsNull(a) \/ IsNull(b) THEN Null
  ELSE Some(TRUE)

\* ~a on an optional boolean.
not3(a) == IF IsNull(a) THEN Null ELSE Some(~Get(a))

\* pl.when(c).then(a).otherwise(b): a null condition takes the otherwise branch.
when_then_otherwise(c, a, b) == IF c = Some(TRUE) THEN a ELSE b

----------------------------------------------------------------------------
(* Text.                                                                   *)

\* The characters of the model's texts in code-point order.
Alphabet ==
  <<"-", ".", "0", "1", "2", "3", "4", "5", "6", "7", "8", "9",
    "C", "E", "T", "U", "a", "b", "c", "e", "r", "t", "u", "x", "|">>

CharCode(c) == CHOOSE i \in 1..Len(Alphabet) : Alphabet[i] = c

Digits == {"0", "1", "2", "3", "4", "5", "6", "7", "8", "9"}

DigitVal(c) == CharCode(c) - CharCode("0")

AllDigits(s) == \A i \in 1..Len(s) : s[i] \in Digits

Min(a, b) == IF a < b THEN a ELSE b

\* Byte-wise lexicographic order of two texts.
StrLess(a, b) ==
  \/ \E i \in 1..Min(Len(a), Len(b)) :
       /\ \A j \in 1..(i - 1) : a[j] = b[j]
       /\ CharCode(a[i]) < CharCode(b[i])
  \/ /\ Len(a) < Len(b)
     /\ \A j \in 1..Len(a) : a[j] = b[j]

RECURSIVE Join(_, _)
\* The texts of parts joined with sep between them.
Join(parts, sep) ==
  IF Len(parts) = 0 THEN << >>
  ELSE IF Len(parts) = 1 THEN parts[1]
  ELSE parts[1] \o sep \o Join(Tail(parts), sep)

\* pl.concat_str(parts, separator=sep): null as soon as one part is null.
concat_str(parts, sep) ==
  IF \E i \in 1..Len(parts) : IsNull(parts[i]) THEN Null
  ELSE Some(Join([i \in 1..Len(parts) |-> Get(parts[i])], sep))

----------------------------------------------------------------------------
(* Exact decimals: pl.Decimal(precision, scale).  A decimal is its sign,   *)
(* the digits of its integer part without leading zeros, and exactly scale *)
(* fractional digits.  Nothing is ever held as a machine number.           *)

\* precision of every Decimal column.
DecimalPrecision == 18
\* scale of finalWorth (and of exchangeRate).
FinalWorthScale == 8
\* scale of numberOfShares.
NumberOfSharesScale == 2

\* Index of the first "." of s, 0 when there is none.
DotPos(s) ==
  IF \E i \in 1..Len(s) : s[i] = "."
  THEN CHOOSE i \in 1..Len(s) : s[i] = "." /\ \A j \in 1..(i - 1) : s[j] # "."
  ELSE 0

RECURSIVE StripZeros(_)
\* Digits without their leading zeros.
StripZeros(d) ==
  IF Len(d) > 0 /\ d[1] = "0" THEN StripZeros(Tail(d)) ELSE d

Zeros(n) == [i \in 1..n |-> "0"]

\* The parse without the padding of missing fractional digits.
deserialize_decimal_unpadded(s, precision, scale) ==
  LET signed == Len(s) > 0 /\ s[1] \in {"-", "+"}
      body   == IF signed THEN Tail(s) ELSE s
      dot    == DotPos(body)
      lhs    == IF dot = 0 THEN body ELSE SubSeq(body, 1, dot - 1)
      rhs    == IF dot = 0 THEN << >> ELSE SubSeq(body, dot + 1, Len(body))
      int    == StripZeros(lhs)
      frac   == IF Len(rhs) >= scale THEN SubSeq(rhs, 1, scale) ELSE rhs
      zero   == \A i \in 1..Len(frac) : frac[i] = "0"
  IN  IF \/ ~AllDigits(lhs)
         \/ ~AllDigits(rhs)
         \/ Len(lhs) + Len(rhs) = 0
         \/ Len(int) + scale > precision
      THEN Null
      ELSE Some([neg  |-> signed /\ s[1] = "-" /\ ~(Len(int) = 0 /\ zero),
                 int  |-> int,
                 frac |-> frac])

\* The string -> Decimal(precision, scale) parse behind cast(): the sign, the
\* digits before and after the first ".", fractional digits beyond scale
\* cut off, missing ones padded with zeros; null when the text is not a
\* decimal literal or its integer digits do not fit precision - scale.
deserialize_decimal(s, precision, scale) ==
  LET signed == Len(s) > 0 /\ s[1] \in {"-", "+"}
      body   == IF signed THEN Tail(s) ELSE s
      dot    == DotPos(body)
      lhs    == IF dot = 0 THEN body ELSE SubSeq(body, 1, dot - 1)
      rhs    == IF dot = 0 THEN << >> ELSE SubSeq(body, dot + 1, Len(body))
      int    == StripZeros(lhs)
      frac   == IF Len(rhs) >= scale THEN SubSeq(rhs, 1, scale)
                ELSE rhs \o Zeros(scale - Len(rhs))
      zero   == \A i \in 1..Len(frac) : frac[i] = "0"
  IN  IF \/ ~AllDigits(lhs)
         \/ ~AllDigits(rhs)
         \/ Len(lhs) + Len(rhs) = 0
         \/ Len(int) + scale > precision
      THEN Null
      ELSE Some([neg  |-> signed /\ s[1] = "-" /\ ~(Len(int) = 0 /\ zero),
                 int  |-> int,
                 frac |-> frac])

\* expr.cast(pl.Decimal(precision, scale)) of an optional text: null stays null.
cast_decimal(o, precision, scale) ==
  IF IsNull(o) THEN Null ELSE deserialize_decimal(Get(o), precision, scale)

\* The cast is strict: a text that does not parse raises and ends the run.
cast_raises(o, precision, scale) ==
  ~IsNull(o) /\ IsNull(deserialize_decimal(Get(o), precision, scale))

\* Order of two digit strings of equal length.
DigitsLess(a, b) ==
  \E i \in 1..Len(a) :
    /\ \A j \in 1..(i - 1) : a[j] = b[j]
    /\ DigitVal(a[i]) < DigitVal(b[i])

\* |a| < |b| for decimals of one scale.
MagLess(a, b) ==
  \/ Len(a.int) < Len(b.int)
  \/ Len(a.int) = Len(b.int) /\ DigitsLess(a.int \o a.frac, b.int \o b.frac)

\* a < b for decimals of one scale.
DecLess(a, b) ==
  IF a.neg /\ ~b.neg THEN TRUE
  ELSE IF ~a.neg /\ b.neg THEN FALSE
  ELSE IF a.neg THEN MagLess(b, a)
  ELSE MagLess(a, b)

----------------------------------------------------------------------------
(* clean_and_deduplicate(df, dataset_type) of drop_double.py.              *)

DatasetTypes == {"billionaires", "assets"}

\* condition with the two name tests of a billionaire joined by | where the
\* code has &: a row is dropped as soon as one name is missing.
condition_either_name(r, t) ==
  IF t = "billionaires"
  THEN or3(or3(is_null(r.personName), eq_lit(r.personName, << >>)),
           or3(is_null(r.lastName), eq_lit(r.lastName, << >>)))
  ELSE or3(is_null(r.personName), eq_lit(r.personName, << >>))

\* Remove records with missing names: the rows the filter drops.
condition(r, t) ==
  IF t = "billionaires"
  THEN and3(or3(is_null(r.personName), eq_lit(r.personName, << >>)),
            or3(is_null(r.lastName), eq_lit(r.lastName, << >>)))
  ELSE or3(is_null(r.personName), eq_lit(r.personName, << >>))

\* df.filter(~condition): the rows whose predicate is true, in their order.
filter_clean(d, t) ==
  SelectSeq(d, LAMBDA r : not3(condition(r, t)) = Some(TRUE))

\* The dedup_key column: date is joined as it is, every other identity
\* column after fill_null("").
dedup_key(r, t) ==
  IF t = "billionaires"
  THEN concat_str(<<r.date,
                    fill_null(r.personName, << >>),
                    fill_null(r.lastName, << >>)>>, <<"|">>)
  ELSE concat_str(<<r.date,
                    fill_null(r.personName, << >>),
                    fill_null(r.ticker, << >>),
                    fill_null(r.companyName, << >>),
                    fill_null(r.currencyCode, << >>),
                    fill_null(r.exchange, << >>),
                    fill_null(r.interactive, << >>),
                    fill_null(r.exchangeRate, << >>)>>, <<"|">>)

\* The text that is cast for the sort: "" becomes null first.
sort_text(r, t) ==
  LET v == IF t = "billionaires" THEN r.finalWorth ELSE r.numberOfShares
  IN  when_then_otherwise(eq_lit(v, << >>), Null, v)

sort_scale(t) ==
  IF t = "billionaires" THEN FinalWorthScale ELSE NumberOfSharesScale

\* The finalWorth_decimal / numberOfShares_decimal column.
sort_col(r, t) == cast_decimal(sort_text(r, t), DecimalPrecision, sort_scale(t))

\* The strict cast of the sort column raises on one of the kept rows.
dedup_raises(d, t) ==
  \E i \in 1..Len(filter_clean(d, t)) :
    cast_raises(sort_text(filter_clean(d, t)[i], t), DecimalPrecision, sort_scale(t))

\* The columns the expressions of clean_and_deduplicate name with pl.col().
referenced_columns(t) ==
  IF t = "billionaires" THEN {"personName", "lastName", "date", "finalWorth"}
  ELSE {"personName", "date", "ticker", "companyName", "currencyCode", "exchange",
        "interactive", "exchangeRate", "numberOfShares"}

\* One of these columns is not a column of the frame: the expression raises.
column_not_found(cols, t) ==
  \E c \in referenced_columns(t) : \A i \in 1..Len(cols) : cols[i] # c

\* get_billionaires_csv_schema() and get_assets_csv_schema(): every column
\* of the two files is read as text.
csv_schema(t) ==
  IF t = "billionaires"
  THEN [c \in {"date", "personName", "lastName", "birthDate", "gender",
               "countryOfCitizenship", "city", "state", "finalWorth", "estWorthPrev",
               "archivedWorth", "privateAssetsWorth", "source", "industries"} |-> "Utf8"]
  ELSE [c \in {"date", "personName", "numberOfShares", "sharePrice", "exchangeRate",
               "ticker", "companyName", "currencyCode", "exchange", "interactive"}
          |-> "Utf8"]

\* pl.read_csv(schema_overrides=overrides, infer_schema_length=n): the dtype
\* each column of the file is read with.  With n = 0 nothing is inferred and
\* a column without an override is text.
read_csv_dtypes(cols, overrides, n) ==
  [c \in {cols[i] : i \in 1..Len(cols)} |->
     IF c \in DOMAIN overrides THEN overrides[c]
     ELSE IF n = 0 THEN "Utf8"
     ELSE "Inferred"]

\* df_keyed: each kept row with its two helper columns.
df_keyed(d, t) ==
  LET c == filter_clean(d, t)
  IN  [i \in 1..Len(c) |->
         [row |-> c[i], dedup_key |-> dedup_key(c[i], t), value |-> sort_col(c[i], t)]]

\* Ascending order of the dedup_key column, nulls first (nulls_last=False).
KeyBefore(a, b) ==
  \/ IsNull(a) /\ ~IsNull(b)
  \/ ~IsNull(a) /\ ~IsNull(b) /\ StrLess(Get(a), Get(b))

\* Descending order of the sort column; nulls_last=False puts its nulls
\* first as well.
ValueBefore(a, b) ==
  \/ IsNull(a) /\ ~IsNull(b)
  \/ ~IsNull(a) /\ ~IsNull(b) /\ DecLess(Get(b), Get(a))

\* sort(["dedup_key", sort_col], descending=[False, True]): x comes strictly
\* before y.
SortBefore(x, y) ==
  \/ KeyBefore(x.dedup_key, y.dedup_key)
  \/ x.dedup_key = y.dedup_key /\ ValueBefore(x.value, y.value)

Orderings(n) ==
  {p \in [1..n -> 1..n] : \A i, j \in 1..n : p[i] = p[j] => i = j}

\* The orders sort() may produce: maintain_order is left False, so rows that
\* compare equal come out in any order.
sorted_orders(k) ==
  {p \in Orderings(Len(k)) :
     \A i, j \in 1..Len(k) : i < j => ~SortBefore(k[p[j]], k[p[i]])}

\* unique(subset=["dedup_key"], keep="first") on the rows in order p: the
\* positions of the first row of every key.
unique_first(k, p) ==
  {i \in 1..Len(k) :
     \A j \in 1..(i - 1) : k[p[j]].dedup_key # k[p[i]].dedup_key}

\* The frames of unique() with the dedup_key helper column left in the rows.
unique_outputs_with_key(k, p) ==
  LET kept == unique_first(k, p)
      m    == Cardinality(kept)
  IN  {[i \in 1..m |->
          [c \in DOMAIN k[p[q[i]]].row \cup {"dedup_key"} |->
             IF c = "dedup_key" THEN k[p[q[i]]].dedup_key ELSE k[p[q[i]]].row[c]]] :
         q \in {f \in [1..m -> kept] : \A i, j \in 1..m : f[i] = f[j] => i = j}}

\* The frames unique() may return for sorted order p: the first rows of the
\* keys, in any order (maintain_order is left False), without the helper
\* columns.
unique_outputs(k, p) ==
  LET kept == unique_first(k, p)
      m    == Cardinality(kept)
  IN  {[i \in 1..m |-> k[p[q[i]]].row] :
         q \in {f \in [1..m -> kept] : \A i, j \in 1..m : f[i] = f[j] => i = j}}

\* Every frame clean_and_deduplicate(d, t) may return.
dedup_outputs(d, t) ==
  LET k == df_keyed(d, t)
  IN  UNION {unique_outputs(k, p) : p \in sorted_orders(k)}

----------------------------------------------------------------------------
(* convert_to_parquet(csv_file, schema_func, ...) of convert_parquet.py.   *)

Field(n, d, s) == [name |-> n, dtype |-> d, scale |-> s]

\* The target schema of the billionaires file, in its declared order.
get_billionaires_schema ==
  <<Field("date", "Date", 0),
    Field("personName", "Categorical", 0),
    Field("lastName", "Categorical", 0),
    Field("birthDate", "Date", 0),
    Field("gender", "Categorical", 0),
    Field("countryOfCitizenship", "Categorical", 0),
    Field("city", "Categorical", 0),
    Field("state", "Categorical", 0),
    Field("source", "Categorical", 0),
    Field("industries", "Categorical", 0),
    Field("finalWorth", "Decimal", 8),
    Field("estWorthPrev", "Decimal", 8),
    Field("archivedWorth", "Decimal", 8),
    Field("privateAssetsWorth", "Decimal", 8)>>

\* The target schema of the assets file, in its declared order.
get_assets_schema ==
  <<Field("date", "Date", 0),
    Field("personName", "Categorical", 0),
    Field("companyName", "Categorical", 0),
    Field("currencyCode", "Categorical", 0),
    Field("currentPrice", "Decimal", 11),
    Field("exchange", "Categorical", 0),
    Field("exchangeRate", "Decimal", 8),
    Field("exerciseOptionPrice", "Decimal", 11),
    Field("interactive", "Boolean", 0),
    Field("numberOfShares", "Decimal", 2),
    Field("sharePrice", "Decimal", 11),
    Field("ticker", "Categorical", 0)>>

target_schema(t) ==
  IF t = "billionaires" THEN get_billionaires_schema ELSE get_assets_schema

\* The sort_columns main() passes for each file.
sort_columns(t) ==
  IF t = "billionaires" THEN <<"personName", "date">>
  ELSE <<"personName", "companyName", "interactive", "date">>

RECURSIVE Number(_)
\* The number written by a short digit string.
Number(d) ==
  IF Len(d) = 0 THEN 0
  ELSE 10 * Number(SubSeq(d, 1, Len(d) - 1)) + DigitVal(d[Len(d)])

IsLeap(y) == (y % 4 = 0 /\ y % 100 # 0) \/ y % 400 = 0

DaysInMonth(y, m) ==
  IF m = 2 THEN (IF IsLeap(y) THEN 29 ELSE 28)
  ELSE IF m \in {4, 6, 9, 11} THEN 30
  ELSE 31

\* str.strptime(pl.Date, "%Y%m%d", strict=False): eight digits that name a
\* day of the calendar, anything else becomes null.
strptime_ymd(o) ==
  IF IsNull(o) THEN Null
  ELSE LET s == Get(o)
           y == Number(SubSeq(s, 1, 4))
           m == Number(SubSeq(s, 5, 6))
           d == Number(SubSeq(s, 7, 8))
       IN  IF Len(s) = 8 /\ AllDigits(s) /\ m \in 1..12 /\ d \in 1..DaysInMonth(y, m)
           THEN Some(<<y, m, d>>)
           ELSE Null

\* str.strptime(pl.Date, "%Y-%m-%d", strict=False): YYYY-MM-DD naming a day
\* of the calendar, anything else becomes null.
strptime_dashed(o) ==
  IF IsNull(o) THEN Null
  ELSE LET s == Get(o)
           y == Number(SubSeq(s, 1, 4))
           m == Number(SubSeq(s, 6, 7))
           d == Number(SubSeq(s, 9, 10))
       IN  IF /\ Len(s) = 10
              /\ s[5] = "-" /\ s[8] = "-"
              /\ AllDigits(SubSeq(s, 1, 4) \o SubSeq(s, 6, 7) \o SubSeq(s, 9, 10))
              /\ m \in 1..12 /\ d \in 1..DaysInMonth(y, m)
           THEN Some(<<y, m, d>>)
           ELSE Null

\* The digits test with a sign let through, as "^-?[0-9]+$" would.
str_contains_digits_signed(o) ==
  IF IsNull(o) THEN Null
  ELSE Some(LET s    == Get(o)
                body == IF Len(s) > 0 /\ s[1] = "-" THEN Tail(s) ELSE s
            IN  Len(body) > 0 /\ AllDigits(body))

\* str.contains("^[0-9]+$"): one digit or more and nothing else.
str_contains_digits(o) ==
  IF IsNull(o) THEN Null ELSE Some(Len(Get(o)) > 0 /\ AllDigits(Get(o)))

\* The largest Int64, 9223372036854775807.
Int64Max ==
  <<"9", "2", "2", "3", "3", "7", "2", "0", "3", "6",
    "8", "5", "4", "7", "7", "5", "8", "0", "7">>

\* The text is an integer literal that fits 64 bits.
int64_literal(s) ==
  LET body == IF Len(s) > 0 /\ s[1] = "-" THEN Tail(s) ELSE s
      mag  == StripZeros(body)
  IN  /\ Len(body) > 0
      /\ AllDigits(body)
      /\ \/ Len(mag) < Len(Int64Max)
         \/ Len(mag) = Len(Int64Max) /\ ~DigitsLess(Int64Max, mag)

\* cast(pl.Int64) is strict: a text that is no such literal raises.
cast_int64_raises(o) == ~IsNull(o) /\ ~int64_literal(Get(o))

\* Milliseconds of one day, the unit change of Datetime("ms") -> Date.
MsPerDay == 86400000

RECURSIVE DivDigits(_, _, _, _)
\* Long division of the digits d by n: the quotient, from quotient q and
\* remainder r of the digits read so far.
DivDigits(d, n, q, r) ==
  IF Len(d) = 0 THEN q
  ELSE LET x == 10 * r + DigitVal(d[1])
       IN  DivDigits(Tail(d), n, 10 * q + (x \div n), x % n)

\* The calendar day that lies z days after 1970-01-01 (z >= 0).
civil_from_days(z) ==
  LET n   == z + 719468
      era == n \div 146097
      doe == n - era * 146097
      yoe == (doe - (doe \div 1460) + (doe \div 36524) - (doe \div 146096)) \div 365
      doy == doe - (365 * yoe + (yoe \div 4) - (yoe \div 100))
      mp  == (5 * doy + 2) \div 153
      d   == doy - ((153 * mp + 2) \div 5) + 1
      m   == IF mp < 10 THEN mp + 3 ELSE mp - 9
      y   == yoe + era * 400 + (IF m <= 2 THEN 1 ELSE 0)
  IN  <<y, m, d>>

RECURSIVE ModDigits(_, _, _)
\* The remainder of that division, from remainder r of the digits read so
\* far.
ModDigits(d, n, r) ==
  IF Len(d) = 0 THEN r ELSE ModDigits(Tail(d), n, (10 * r + DigitVal(d[1])) % n)

\* cast(pl.Int64).cast(pl.Datetime(time_unit="ms")).cast(pl.Date) of an
\* integer literal: the day that holds the millisecond, before 1970 for a
\* negative one.  (The condition of the when() never selects a signed
\* literal.)
epoch_ms_to_date(o) ==
  IF IsNull(o) THEN Null
  ELSE IF Len(Get(o)) > 0 /\ AllDigits(Get(o))
  THEN Some(civil_from_days(DivDigits(Get(o), MsPerDay, 0, 0)))
  ELSE IF Len(Get(o)) > 1 /\ Get(o)[1] = "-" /\ AllDigits(Tail(Get(o)))
  THEN Some(civil_from_days(
              IF ModDigits(Tail(Get(o)), MsPerDay, 0) = 0
              THEN 0 - DivDigits(Tail(Get(o)), MsPerDay, 0, 0)
              ELSE 0 - DivDigits(Tail(Get(o)), MsPerDay, 0, 0) - 1))
  ELSE Null

\* The birthDate column: digits are epoch milliseconds, anything else is
\* tried as YYYY-MM-DD.
birth_date_expr(o) ==
  when_then_otherwise(str_contains_digits(o), epoch_ms_to_date(o), strptime_dashed(o))

\* The Boolean column with False for every text that is not a true literal.
boolean_expr_else_false(o) ==
  IF ~IsNull(o) /\ Get(o) \in {<<"T", "r", "u", "e">>, <<"t", "r", "u", "e">>,
                               <<"1">>, <<"T", "R", "U", "E">>}
  THEN Some(TRUE)
  ELSE IF ~IsNull(o) THEN Some(FALSE)
  ELSE Null

\* The Boolean column: two literal sets, anything else null.
boolean_expr(o) ==
  IF ~IsNull(o) /\ Get(o) \in {<<"T", "r", "u", "e">>, <<"t", "r", "u", "e">>,
                               <<"1">>, <<"T", "R", "U", "E">>}
  THEN Some(TRUE)
  ELSE IF ~IsNull(o) /\ Get(o) \in {<<"F", "a", "l", "s", "e">>, <<"f", "a", "l", "s", "e">>,
                                    <<"0">>, <<"F", "A", "L", "S", "E">>}
  THEN Some(FALSE)
  ELSE Null

\* The text handed to a cast: "" becomes null first (Decimal and Categorical).
empty_to_null(o) == when_then_otherwise(eq_lit(o, << >>), Null, o)

\* The missing-column branch with an empty text where the code has a null
\* literal.
column_expression_empty_text(f, r) ==
  IF f.name \notin DOMAIN r THEN Some(<< >>)
  ELSE IF f.name = "birthDate" THEN birth_date_expr(r[f.name])
  ELSE IF f.dtype = "Date" /\ f.name = "date" THEN strptime_ymd(r[f.name])
  ELSE IF f.dtype = "Date" THEN strptime_dashed(r[f.name])
  ELSE IF f.dtype = "Decimal"
  THEN cast_decimal(empty_to_null(r[f.name]), DecimalPrecision, f.scale)
  ELSE IF f.dtype = "Boolean" THEN boolean_expr(r[f.name])
  ELSE empty_to_null(r[f.name])

\* The expression built for schema field f, applied to row r: the
\* missing-column branch, the birthDate column, the date column, Decimal,
\* Boolean and Categorical columns.
column_expression(f, r) ==
  IF f.name \notin DOMAIN r THEN Null
  ELSE IF f.name = "birthDate" THEN birth_date_expr(r[f.name])
  ELSE IF f.dtype = "Date" /\ f.name = "date" THEN strptime_ymd(r[f.name])
  ELSE IF f.dtype = "Date" THEN strptime_dashed(r[f.name])
  ELSE IF f.dtype = "Decimal"
  THEN cast_decimal(empty_to_null(r[f.name]), DecimalPrecision, f.scale)
  ELSE IF f.dtype = "Boolean" THEN boolean_expr(r[f.name])
  ELSE empty_to_null(r[f.name])

FieldNames(schema) == {schema[i].name : i \in 1..Len(schema)}

\* A read schema that hands each Decimal column to the reader as a float.
get_csv_read_schema_float(schema) ==
  [n \in FieldNames(schema) |->
     IF \E i \in 1..Len(schema) : schema[i].name = n /\ schema[i].dtype = "Decimal"
     THEN "Float64" ELSE "Utf8"]

\* get_csv_read_schema(target_schema): every column of the schema is text.
get_csv_read_schema(schema) == [n \in FieldNames(schema) |-> "Utf8"]

FieldOf(schema, n) == schema[CHOOSE i \in 1..Len(schema) : schema[i].name = n]

\* df.select(column_expressions) for one row: the typed record.
typed_row(r, schema) ==
  [n \in FieldNames(schema) |-> column_expression(FieldOf(schema, n), r)]

\* A strict cast raises on some row of the frame: the Decimal cast of a
\* Decimal column, or the Int64 cast inside the birthDate expression, which
\* is computed on every row of the column.
convert_raises(d, schema) ==
  \E i \in 1..Len(d), j \in 1..Len(schema) :
    /\ schema[j].name \in DOMAIN d[i]
    /\ \/ /\ schema[j].dtype = "Decimal"
          /\ cast_raises(empty_to_null(d[i][schema[j].name]), DecimalPrecision,
                         schema[j].scale)
       \/ /\ schema[j].name = "birthDate"
          /\ cast_int64_raises(d[i][schema[j].name])

\* df.select(column_expressions): one typed record per row; when the file
\* has none of the schema's columns every expression is a literal and the
\* frame has one row.
df_typed(cols, d, schema) ==
  IF \A i \in 1..Len(cols) : cols[i] \notin FieldNames(schema)
  THEN <<typed_row(<< >>, schema)>>
  ELSE [i \in 1..Len(d) |-> typed_row(d[i], schema)]

\* The output with the columns of the file kept in the file's order and the
\* missing fields appended, as with_columns() in place of select() gives.
select_file_columns(cols, schema) ==
  cols \o SelectSeq([i \in 1..Len(schema) |-> schema[i].name],
                    LAMBDA n : \A i \in 1..Len(cols) : cols[i] # n)

\* df.select(column_expressions).select(list(target_schema.keys())): the
\* columns of the output, whatever the columns cols of the file.
select_schema_keys(cols, schema) == [i \in 1..Len(schema) |-> schema[i].name]

\* Ascending order of one typed column, nulls first (nulls_last=False).
TypedBefore(f, a, b) ==
  \/ IsNull(a) /\ ~IsNull(b)
  \/ /\ ~IsNull(a) /\ ~IsNull(b)
     /\ IF f.dtype = "Date"
        THEN \E i \in 1..3 : /\ \A j \in 1..(i - 1) : Get(a)[j] = Get(b)[j]
                             /\ Get(a)[i] < Get(b)[i]
        ELSE IF f.dtype = "Decimal" THEN DecLess(Get(a), Get(b))
        ELSE IF f.dtype = "Boolean" THEN ~Get(a) /\ Get(b)
        ELSE StrLess(Get(a), Get(b))

\* df_final.sort(sort_columns): x comes strictly before y.
FinalBefore(x, y, schema, cols) ==
  \E i \in 1..Len(cols) :
    /\ \A j \in 1..(i - 1) : x[cols[j]] = y[cols[j]]
    /\ TypedBefore(FieldOf(schema, cols[i]), x[cols[i]], y[cols[i]])

\* A sort that leaves out the rows whose first sort column is null.
sorted_final_without_nulls(d, schema, cols) ==
  IF Len(cols) = 0 THEN {d}
  ELSE LET kept == SelectSeq(d, LAMBDA x : ~IsNull(x[cols[1]]))
       IN  {[i \in 1..Len(kept) |-> kept[p[i]]] :
              p \in {q \in Orderings(Len(kept)) :
                       \A i, j \in 1..Len(kept) :
                         i < j => ~FinalBefore(kept[q[j]], kept[q[i]], schema, cols)}}

\* The frames the final sort may produce (maintain_order is left False);
\* without sort_columns the frame is not sorted.
sorted_final(d, schema, cols) ==
  IF Len(cols) = 0 THEN {d}
  ELSE {[i \in 1..Len(d) |-> d[p[i]]] :
          p \in {q \in Orderings(Len(d)) :
                   \A i, j \in 1..Len(d) :
                     i < j => ~FinalBefore(d[q[j]], d[q[i]], schema, cols)}}

----------------------------------------------------------------------------
(* The input rows the model draws from.  Each family of rows exercises one *)
(* rule: the value ordering, the garbage filter, the key, the casts.       *)

Day1 == <<"2", "0", "2", "4", "0", "1", "0", "1">>
\* Two texts that are no YYYYMMDD date.
BadDay1 == <<"2", "0", "2", "4", "1", "3", "0", "1">>
BadDay2 == <<"x">>

\* "5000000000.00000000", "3000000000.00000000" and "5000000000.0".
Worth5 == <<"5">> \o Zeros(9) \o <<".">> \o Zeros(8)
Worth3 == <<"3">> \o Zeros(9) \o <<".">> \o Zeros(8)
Worth5Short == <<"5">> \o Zeros(9) \o <<".", "0">>
\* "1.123456789": nine fractional digits.
TooFine == <<"1", ".", "1", "2", "3", "4", "5", "6", "7", "8", "9">>
\* "123456789012345678.9": eighteen integer digits.
TooBig ==
  <<"1", "2", "3", "4", "5", "6", "7", "8", "9", "0",
    "1", "2", "3", "4", "5", "6", "7", "8", ".", "9">>

BillionaireRow(d, p, l, w) ==
  [date |-> d, personName |-> p, lastName |-> l, finalWorth |-> w]

BillionaireRows ==
  \* one key, every kind of finalWorth
  {BillionaireRow(Some(Day1), Some(<<"a">>), Some(<<"c">>), w) :
     w \in {Null, Some(<< >>), Some(Worth3), Some(Worth5), Some(Worth5Short),
            Some(TooFine), Some(TooBig)}}
  \cup
  \* names null or empty
  {BillionaireRow(Some(Day1), n[1], n[2], Some(Worth3)) :
     n \in {<<Null, Null>>, <<Some(<< >>), Some(<< >>)>>, <<Null, Some(<< >>)>>,
            <<Some(<< >>), Some(<<"c">>)>>, <<Some(<<"a">>), Null>>}}
  \cup
  \* the separator inside a name; a null or invalid date
  {BillionaireRow(Some(Day1), Some(<<"a", "|", "b">>), Some(<<"c">>), Some(Worth3)),
   BillionaireRow(Some(Day1), Some(<<"a">>), Some(<<"b", "|", "c">>), Some(Worth5)),
   BillionaireRow(Null, Some(<<"a">>), Some(<<"c">>), Some(Worth3)),
   BillionaireRow(Null, Some(<<"x">>), Some(<<"c">>), Some(Worth5)),
   BillionaireRow(Some(BadDay1), Some(<<"a">>), Some(<<"c">>), Some(Worth3)),
   BillionaireRow(Some(BadDay2), Some(<<"a">>), Some(<<"c">>), Some(Worth5))}

True1 == <<"T", "r", "u", "e">>
True2 == <<"t", "r", "u", "e">>
Rate1 == <<"1", ".", "0">>
Rate2 == <<"1", ".", "0", "0">>
\* "12345678901.5": eleven integer digits do not fit Decimal(18, 8).
RateTooBig == <<"1", "2", "3", "4", "5", "6", "7", "8", "9", "0", "1", ".", "5">>
\* "1.005": three fractional digits for Decimal(18, 2).
SharesTooFine == <<"1", ".", "0", "0", "5">>
\* "12345678901234567.8": seventeen integer digits do not fit Decimal(18, 2).
SharesTooBig ==
  <<"1", "2", "3", "4", "5", "6", "7", "8", "9", "0",
    "1", "2", "3", "4", "5", "6", "7", ".", "8">>

AssetRow(d, p, tk, c, i, x, n) ==
  [date |-> d, personName |-> p, numberOfShares |-> n, exchangeRate |-> x,
   ticker |-> tk, companyName |-> c, currencyCode |-> Some(<<"U">>),
   exchange |-> Some(<<"E">>), interactive |-> i]

AssetRows ==
  \* one key, every kind of numberOfShares
  {AssetRow(Some(Day1), Some(<<"a">>), Some(<<"T">>), Some(<<"C">>),
            Some(True1), Some(Rate1), n) :
     n \in {Null, Some(<< >>), Some(<<"3">>), Some(<<"5">>), Some(<<"5", ".", "0">>),
            Some(SharesTooFine), Some(SharesTooBig)}}
  \cup
  \* identity texts that differ only before canonicalization; a rate that
  \* does not fit
  {AssetRow(Some(Day1), Some(<<"a">>), Some(<<"T">>), Some(<<"C">>), i[1], i[2],
            Some(<<"3">>)) :
     i \in {<<Some(True2), Some(Rate1)>>, <<Some(True1), Some(Rate2)>>,
            <<Some(True1), Some(RateTooBig)>>}}
  \cup
  \* no name; the separator inside a field; a null date
  {AssetRow(Some(Day1), Null, Some(<<"T">>), Some(<<"C">>), Some(True1), Some(Rate1),
            Some(<<"3">>)),
   AssetRow(Some(Day1), Some(<< >>), Some(<<"T">>), Some(<<"C">>), Some(True1),
            Some(Rate1), Some(<<"3">>)),
   AssetRow(Some(Day1), Some(<<"a">>), Some(<<"T", "|", "C">>), Some(<<"U">>),
            Some(True1), Some(Rate1), Some(<<"3">>)),
   AssetRow(Some(Day1), Some(<<"a">>), Some(<<"T">>), Some(<<"C", "|", "U">>),
            Some(True1), Some(Rate1), Some(<<"5">>)),
   AssetRow(Null, Some(<<"a">>), Some(<<"T">>), Some(<<"C">>), Some(True1),
            Some(Rate1), Some(<<"3">>)),
   AssetRow(Null, Some(<<"x">>), Some(<<"T">>), Some(<<"C">>), Some(True1),
            Some(Rate1), Some(<<"5">>))}

Rows(t) == IF t = "billionaires" THEN BillionaireRows ELSE AssetRows

\* Every frame of at most MaxRows rows.
Frames(t) == UNION {[1..n -> Rows(t)] : n \in 0..MaxRows}

----------------------------------------------------------------------------
(* The run: the input is read, deduplicated, and the deduplicated file is  *)
(* either deduplicated once more or converted.                             *)

\* No main() and no download is under way.
NoMain ==
  /\ script = "none"
  /\ inputs = << >>
  /\ outputs = << >>
  /\ processed = {}

NoDownload ==
  /\ archive = {}
  /\ files = << >>
  /\ snapshots = << >>
  /\ timestamp_counts = << >>
  /\ position = 0
  /\ runs = 0
  /\ named = {}
  /\ skipped = {}

\* The header of the two files of the pipeline.
FileColumns(t) ==
  IF t = "billionaires" THEN <<"date", "personName", "lastName", "finalWorth">>
  ELSE <<"date", "personName", "numberOfShares", "exchangeRate", "ticker",
         "companyName", "currencyCode", "exchange", "interactive">>

\* main() of drop_double.py has read the file; main() of convert_parquet.py
\* will pass its sort_columns.
Init ==
  /\ dataset_type \in DatasetTypes
  /\ columns = FileColumns(dataset_type)
  /\ df \in Frames(dataset_type)
  /\ dtypes = read_csv_dtypes(columns, csv_schema(dataset_type), 0)
  /\ sort_by = sort_columns(dataset_type)
  /\ pc = "read"
  /\ df_clean = << >>
  /\ deduped = << >>
  /\ rededuped = << >>
  /\ df_final = << >>
  /\ final_columns = << >>
  /\ report = << >>
  /\ NoMain
  /\ NoDownload

\* clean_and_deduplicate(df, dataset_type): an expression names a column the
\* frame lacks and raises, or the strict cast raises, or one of the frames it
\* may return is returned.
clean_and_deduplicate ==
  /\ pc = "read"
  /\ \/ /\ column_not_found(columns, dataset_type)
        /\ pc' = "dedup_failed"
        /\ UNCHANGED <<df_clean, deduped>>
     \/ /\ ~column_not_found(columns, dataset_type)
        /\ df_clean' = filter_clean(df, dataset_type)
        /\ \/ /\ dedup_raises(df, dataset_type)
              /\ pc' = "dedup_failed"
              /\ deduped' = deduped
           \/ /\ ~dedup_raises(df, dataset_type)
              /\ deduped' \in dedup_outputs(df, dataset_type)
              /\ pc' = "deduped"
  /\ UNCHANGED <<dataset_type, df, rededuped, df_final, columns, dtypes, sort_by,
                 final_columns, report>>
  /\ UNCHANGED <<main_vars, download_vars>>

\* clean_and_deduplicate applied to its own output.  Every value of that
\* frame was cast before, so the cast cannot raise here.
deduplicate_again ==
  /\ pc = "deduped"
  /\ ~column_not_found(columns, dataset_type)
  /\ ~dedup_raises(deduped, dataset_type)
  /\ rededuped' \in dedup_outputs(deduped, dataset_type)
  /\ pc' = "rededuped"
  /\ UNCHANGED <<dataset_type, df, df_clean, deduped, df_final, columns, dtypes,
                 sort_by, final_columns, report>>
  /\ UNCHANGED <<main_vars, download_vars>>

\* One line of what convert_to_parquet prints: a shape, or the error.
Line(item, rows) == [item |-> item, rows |-> rows]

\* convert_to_parquet on the deduplicated file, read as text: a strict cast
\* raises and main() returns False with nothing written, or the typed frame,
\* sorted when sort_columns are given, is written.
convert_to_parquet ==
  /\ pc = "deduped"
  /\ dtypes' = read_csv_dtypes(columns, get_csv_read_schema(target_schema(dataset_type)), 0)
  /\ \/ /\ convert_raises(deduped, target_schema(dataset_type))
        /\ pc' = "convert_failed"
        /\ UNCHANGED <<df_final, final_columns>>
        /\ report' = <<Line("original_shape", Len(deduped)), Line("error", 0)>>
     \/ /\ ~convert_raises(deduped, target_schema(dataset_type))
        /\ df_final' \in sorted_final(df_typed(columns, deduped,
                                               target_schema(dataset_type)),
                                      target_schema(dataset_type), sort_by)
        /\ final_columns' = select_schema_keys(columns, target_schema(dataset_type))
        /\ report' = <<Line("original_shape", Len(deduped)),
                       Line("final_shape", Len(df_final'))>>
        /\ pc' = "converted"
  /\ UNCHANGED <<dataset_type, df, df_clean, deduped, rededuped, columns, sort_by>>
  /\ UNCHANGED <<main_vars, download_vars>>

Next ==
  \/ clean_and_deduplicate
  \/ deduplicate_again
  \/ convert_to_parquet

Spec == Init /\ [][Next]_vars

----------------------------------------------------------------------------
(* clean_and_deduplicate on files whose header lacks a column.             *)

Without(cols, c) == SelectSeq(cols, LAMBDA x : x # c)

\* The header of the file, whole or without one column the function names.
DedupColumns(t) ==
  IF t = "billionaires"
  THEN {FileColumns(t), Without(FileColumns(t), "lastName"),
        Without(FileColumns(t), "finalWorth")}
  ELSE {FileColumns(t), Without(FileColumns(t), "exchange"),
        Without(FileColumns(t), "numberOfShares")}

\* The row r of a file with the columns cols only.
Project(r, cols) == [c \in {cols[i] : i \in 1..Len(cols)} |-> r[c]]

InitDedup ==
  /\ dataset_type \in DatasetTypes
  /\ columns \in DedupColumns(dataset_type)
  /\ df \in UNION {[1..n -> {Project(r, columns) : r \in Rows(dataset_type)}] :
                     n \in 0..MaxRows}
  /\ dtypes = read_csv_dtypes(columns, csv_schema(dataset_type), 0)
  /\ sort_by = sort_columns(dataset_type)
  /\ pc = "read"
  /\ df_clean = << >>
  /\ deduped = << >>
  /\ rededuped = << >>
  /\ df_final = << >>
  /\ final_columns = << >>
  /\ report = << >>
  /\ NoMain
  /\ NoDownload

NextDedup == clean_and_deduplicate

SpecDedup == InitDedup /\ [][NextDedup]_vars

----------------------------------------------------------------------------
(* convert_to_parquet on any file: columns missing, unknown or in another  *)
(* order, and every kind of cell text.                                     *)

\* birthDate texts: 2000-01-01T00:00:00.000 and 2000-01-01T23:59:59.999 in
\* epoch milliseconds, a dashed date, a negative epoch, twenty digits.
Epoch2000 == <<"9", "4", "6", "6", "8", "4", "8", "0", "0", "0", "0", "0">>
Epoch2000End == <<"9", "4", "6", "7", "7", "1", "1", "9", "9", "9", "9", "9">>
Dashed1975 == <<"1", "9", "7", "5", "-", "0", "6", "-", "1", "2">>
NegativeEpoch == <<"-", "8", "6", "4", "0", "0", "0", "0", "0">>
TwentyDigits == <<"1">> \o Zeros(19)
\* "20230229": no day of the calendar.
Feb29 == <<"2", "0", "2", "3", "0", "2", "2", "9">>

\* The texts a cell of column c is drawn from.
CellTexts(c) ==
  IF c = "birthDate"
  THEN {Null, Some(<< >>), Some(Epoch2000), Some(Epoch2000End), Some(Dashed1975),
        Some(NegativeEpoch), Some(TwentyDigits), Some(BadDay2)}
  ELSE IF c = "date"
  THEN {Null, Some(Day1), Some(BadDay1), Some(Feb29), Some(BadDay2)}
  ELSE IF c = "finalWorth"
  THEN {Null, Some(<< >>), Some(<<"1", ".", "5">>), Some(<<"5">>),
        Some(<<"0", "0", "7", ".", "5">>), Some(<<"-", "0", ".", "5">>),
        Some(<<"-", "0", ".", "0">>), Some(TooFine), Some(RateTooBig), Some(BadDay2)}
  ELSE IF c = "numberOfShares"
  THEN {Null, Some(<<"3">>), Some(<<"5", ".", "0">>), Some(SharesTooFine),
        Some(SharesTooBig)}
  ELSE IF c = "interactive"
  THEN {Null, Some(<< >>), Some(True1), Some(True2), Some(<<"1">>),
        Some(<<"T", "R", "U", "E">>), Some(<<"F", "a", "l", "s", "e">>),
        Some(<<"f", "a", "l", "s", "e">>), Some(<<"0">>),
        Some(<<"F", "A", "L", "S", "E">>), Some(<<"t", "R", "u", "E">>),
        Some(<<" ", "t", "r", "u", "e">>)}
  ELSE IF c = "personName"
  THEN {Null, Some(<<"a">>), Some(<<"b">>)}
  ELSE {Some(<<"x">>)}

\* The headers a file is drawn with; "rank" is no field of either schema.
ConvertColumns(t) ==
  IF t = "billionaires"
  THEN {<<"birthDate">>, <<"finalWorth">>, <<"date">>, <<"date", "personName">>,
        <<"personName", "rank", "date">>, <<"rank">>}
  ELSE {<<"interactive">>, <<"numberOfShares">>, <<"rank", "personName">>}

\* The sort_columns a caller may pass: none, those of main(), the date.
SortArguments(t) == {<< >>, sort_columns(t), <<"date">>}

RECURSIVE RowsOver(_)
\* Every row of a file with the columns cols.
RowsOver(cols) ==
  IF Len(cols) = 0 THEN {<< >>}
  ELSE {[c \in DOMAIN r \cup {cols[1]} |-> IF c = cols[1] THEN v ELSE r[c]] :
          r \in RowsOver(Tail(cols)), v \in CellTexts(cols[1])}

InitConvert ==
  /\ dataset_type \in DatasetTypes
  /\ columns \in ConvertColumns(dataset_type)
  /\ deduped \in UNION {[1..n -> RowsOver(columns)] : n \in 0..MaxRows}
  /\ sort_by \in SortArguments(dataset_type)
  /\ pc = "deduped"
  /\ dtypes = << >>
  /\ df = << >>
  /\ df_clean = << >>
  /\ rededuped = << >>
  /\ df_final = << >>
  /\ final_columns = << >>
  /\ report = << >>
  /\ NoMain
  /\ NoDownload

NextConvert == convert_to_parquet

SpecConvert == InitConvert /\ [][NextConvert]_vars

----------------------------------------------------------------------------
(* main() of drop_double.py and main() of convert_parquet.py on the two    *)
(* input files, either of which may be missing.                            *)

\* No stage is under way on a single file.
NoStage ==
  /\ dataset_type = "none"
  /\ df = << >>
  /\ df_clean = << >>
  /\ deduped = << >>
  /\ rededuped = << >>
  /\ df_final = << >>
  /\ columns = << >>
  /\ dtypes = << >>
  /\ sort_by = << >>
  /\ final_columns = << >>
  /\ report = << >>

\* The rows the two files are drawn from: one that casts and one that does
\* not.
MainRows(t) ==
  IF t = "billionaires"
  THEN {BillionaireRow(Some(Day1), Some(<<"a">>), Some(<<"c">>), w) :
          w \in {Some(Worth3), Some(TooBig)}}
  ELSE {AssetRow(Some(Day1), Some(<<"a">>), Some(<<"T">>), Some(<<"C">>), Some(True1),
                 Some(Rate1), n) :
          n \in {Some(<<"3">>), Some(SharesTooBig)}}

\* A file of the run: missing (null), or a frame of at most MaxRows rows.
MainFiles(t) ==
  {Null} \cup {Some(f) : f \in UNION {[1..n -> MainRows(t)] : n \in 0..MaxRows}}

InitMain ==
  /\ script \in {"drop_double", "convert_parquet"}
  /\ inputs \in [billionaires : MainFiles("billionaires"), assets : MainFiles("assets")]
  /\ outputs = [billionaires |-> Null, assets |-> Null]
  /\ processed = {}
  /\ pc = "start"
  /\ NoStage
  /\ NoDownload

\* main() of drop_double.py: pl.read_csv raises on a missing file, before
\* anything is cleaned; else both frames are cleaned, billionaires first,
\* and an exception of either ends the run; else both files are written.
drop_double_main ==
  /\ script = "drop_double"
  /\ pc = "start"
  /\ \/ /\ IsNull(inputs.billionaires) \/ IsNull(inputs.assets)
        /\ pc' = "failed"
        /\ UNCHANGED <<outputs, processed>>
     \/ /\ ~IsNull(inputs.billionaires) /\ ~IsNull(inputs.assets)
        /\ dedup_raises(Get(inputs.billionaires), "billionaires")
        /\ pc' = "failed"
        /\ processed' = {"billionaires"}
        /\ UNCHANGED outputs
     \/ /\ ~IsNull(inputs.billionaires) /\ ~IsNull(inputs.assets)
        /\ ~dedup_raises(Get(inputs.billionaires), "billionaires")
        /\ dedup_raises(Get(inputs.assets), "assets")
        /\ pc' = "failed"
        /\ processed' = {"billionaires", "assets"}
        /\ UNCHANGED outputs
     \/ /\ ~IsNull(inputs.billionaires) /\ ~IsNull(inputs.assets)
        /\ ~dedup_raises(Get(inputs.billionaires), "billionaires")
        /\ ~dedup_raises(Get(inputs.assets), "assets")
        /\ \E b \in dedup_outputs(Get(inputs.billionaires), "billionaires"),
              a \in dedup_outputs(Get(inputs.assets), "assets") :
             outputs' = [billionaires |-> Some(b), assets |-> Some(a)]
        /\ processed' = {"billionaires", "assets"}
        /\ pc' = "done"
  /\ UNCHANGED <<script, inputs, stage_vars, download_vars>>

\* One call of convert_to_parquet inside the try of main(): read_csv raises
\* on a missing file, or a strict cast raises, and main() returns False; or
\* the output file is written and main() goes on.
main_convert(t, after) ==
  \/ /\ IsNull(inputs[t])
     /\ pc' = "failed"
     /\ UNCHANGED <<outputs, processed>>
  \/ /\ ~IsNull(inputs[t])
     /\ convert_raises(Get(inputs[t]), target_schema(t))
     /\ pc' = "failed"
     /\ processed' = processed \cup {t}
     /\ UNCHANGED outputs
  \/ /\ ~IsNull(inputs[t])
     /\ ~convert_raises(Get(inputs[t]), target_schema(t))
     /\ \E x \in sorted_final(df_typed(FileColumns(t), Get(inputs[t]), target_schema(t)),
                              target_schema(t), sort_columns(t)) :
          outputs' = [outputs EXCEPT ![t] = Some(x)]
     /\ processed' = processed \cup {t}
     /\ pc' = after

\* main() of convert_parquet.py, first call: the billionaires file.
convert_billionaires ==
  /\ script = "convert_parquet"
  /\ pc = "start"
  /\ main_convert("billionaires", "billionaires_converted")
  /\ UNCHANGED <<script, inputs, stage_vars, download_vars>>

\* main() of convert_parquet.py, second call: the assets file.
convert_assets ==
  /\ script = "convert_parquet"
  /\ pc = "billionaires_converted"
  /\ main_convert("assets", "done")
  /\ UNCHANGED <<script, inputs, stage_vars, download_vars>>

NextMain ==
  \/ drop_double_main
  \/ convert_billionaires
  \/ convert_assets

SpecMain == InitMain /\ [][NextMain]_vars

----------------------------------------------------------------------------
(* main() of get_data.py: the snapshots of the archive are listed, source  *)
(* by source, and downloaded one by one into the output directory, which   *)
(* keeps its files from one run to the next.                               *)

\* Number of the forbes_urls the model queries, and of the runs it makes.
MaxSources == 2
MaxRuns == 2

Sources == 0..(MaxSources - 1)

\* Two timestamps of the archive: "20240101000000" and "20241301000000"
\* are fourteen digits each.
Timestamps == {Day1 \o Zeros(6), BadDay1 \o Zeros(6)}

\* One row of a CDX answer with the source_index the loop adds to it.
Snap(ts, src) == [timestamp |-> ts, source_index |-> src]

\* The timestamps of set S in the order of the CDX answer, ascending.
InOrder(S) ==
  CHOOSE q \in [1..Cardinality(S) -> S] :
    \A i, j \in 1..Cardinality(S) : i < j => StrLess(q[i], q[j])

RECURSIVE Found(_, _, _, _)
\* The snapshots list after the search loop from source src on: the sources
\* in answered answer with their snapshots of the date range, the others
\* raise and add nothing.
Found(src, answered, range, arch) ==
  IF src >= MaxSources THEN << >>
  ELSE (IF src \in answered
        THEN LET rows == InOrder({ts \in range : Snap(ts, src) \in arch})
             IN  [k \in 1..Len(rows) |-> Snap(rows[k], src)]
        ELSE << >>)
       \o Found(src + 1, answered, range, arch)

\* str(src_idx) inside the file name.
IndexText(src) == <<"0", "1", "2", "3">>[src + 1]

\* The file name of the snapshot: the timestamp alone for the first snapshot
\* of that timestamp in the run, the timestamp and the source for the
\* later ones.
filename(ts, count, src) ==
  IF count = 1 THEN ts \o <<".json">>
  ELSE ts \o <<"_source">> \o <<IndexText(src)>> \o <<".json">>

InitDownload ==
  /\ archive \in SUBSET {Snap(ts, src) : ts \in Timestamps, src \in Sources}
  /\ files = << >>
  /\ snapshots = << >>
  /\ timestamp_counts = << >>
  /\ position = 0
  /\ runs = 0
  /\ named = {}
  /\ skipped = {}
  /\ pc = "idle"
  /\ NoStage
  /\ NoMain

\* A run up to its download loop: every source is asked for its snapshots
\* of the date range and answers or fails; with no snapshot, or with
\* --dry-run, the run ends here.
search_snapshots ==
  /\ pc = "idle"
  /\ runs < MaxRuns
  /\ runs' = runs + 1
  /\ \E answered \in SUBSET Sources, range \in SUBSET Timestamps, dry_run \in BOOLEAN :
       /\ snapshots' = Found(0, answered, range, archive)
       /\ timestamp_counts' = [ts \in Timestamps |-> 0]
       /\ IF Len(snapshots') = 0 \/ dry_run
          THEN pc' = "idle" /\ position' = 0
          ELSE pc' = "downloading" /\ position' = 1
  /\ UNCHANGED <<archive, files, named, skipped, stage_vars, main_vars>>

\* One turn of the download loop: the file name is made from the count of
\* the timestamp so far; an existing file is skipped, else the snapshot is
\* fetched and written, or the fetch raises and nothing is written.
download_snapshot ==
  /\ pc = "downloading"
  /\ LET snap  == snapshots[position]
         ts    == snap.timestamp
         count == timestamp_counts[ts] + 1
         name  == filename(ts, count, snap.source_index)
     IN  /\ timestamp_counts' = [timestamp_counts EXCEPT ![ts] = count]
         /\ named' = named \cup {<<snap, name>>}
         /\ IF name \in DOMAIN files
            THEN /\ skipped' = skipped \cup {<<snap, name>>}
                 /\ files' = files
            ELSE /\ skipped' = skipped
                 /\ \/ files' = [n \in DOMAIN files \cup {name} |->
                                   IF n = name THEN snap ELSE files[n]]
                    \/ files' = files
  /\ position' = position + 1
  /\ pc' = IF position = Len(snapshots) THEN "idle" ELSE "downloading"
  /\ UNCHANGED <<archive, snapshots, runs, stage_vars, main_vars>>

NextDownload ==
  \/ search_snapshots
  \/ download_snapshot

SpecDownload == InitDownload /\ [][NextDownload]_vars

----------------------------------------------------------------------------
(* Vocabulary of the properties: the specification's notions, stated       *)
(* without the operators that model the code.                              *)

\* The identity fields of the two record kinds.
IdentityFields(t) ==
  IF t = "billionaires" THEN <<"date", "personName", "lastName">>
  ELSE <<"date", "personName", "ticker", "companyName", "currencyCode",
         "exchange", "interactive", "exchangeRate">>

\* The textual form of an identity field: null is the empty text.
TextOf(o) == IF IsNull(o) THEN << >> ELSE Get(o)

\* The identity of a raw row: its identity texts, null counted as empty.
IdentityOf(r, t) ==
  [i \in 1..Len(IdentityFields(t)) |-> TextOf(r[IdentityFields(t)[i]])]

\* The DedupKey of a raw row as the specification builds it.
DedupKey(r, t) == Join(IdentityOf(r, t), <<"|">>)

\* The identity of a canonical record: its typed identity values.
CanonicalKey(c, t) ==
  [i \in 1..Len(IdentityFields(t)) |-> c[IdentityFields(t)[i]]]

\* A name field that is null or empty.
NameMissing(o) == IsNull(o) \/ Get(o) = << >>

\* A row without addressable identity.
Garbage(r, t) ==
  IF t = "billionaires"
  THEN NameMissing(r.personName) /\ NameMissing(r.lastName)
  ELSE NameMissing(r.personName)

\* The valueField of a raw row as an exact decimal, null when absent or empty.
ValueOf(r, t) == sort_col(r, t)

\* The text of a decimal column of a raw row.
FractionDigits(s) == IF DotPos(s) = 0 THEN 0 ELSE Len(s) - DotPos(s)

IntegerDigits(s) ==
  LET body == IF Len(s) > 0 /\ s[1] \in {"-", "+"} THEN Tail(s) ELSE s
  IN  Len(StripZeros(IF DotPos(body) = 0 THEN body ELSE SubSeq(body, 1, DotPos(body) - 1)))

\* A decimal literal that does not fit Decimal(precision, scale).
PrecisionOverflow(o, scale) ==
  ~IsNull(o) /\ FractionDigits(Get(o)) > scale

RangeOverflow(o, precision, scale) ==
  ~IsNull(o) /\ IntegerDigits(Get(o)) > precision - scale

\* Row r holds an overflowing literal in one of the Decimal columns of schema.
RowOverflows(r, schema) ==
  \E j \in 1..Len(schema) :
    /\ schema[j].dtype = "Decimal"
    /\ schema[j].name \in DOMAIN r
    /\ \/ PrecisionOverflow(r[schema[j].name], schema[j].scale)
       \/ RangeOverflow(r[schema[j].name], DecimalPrecision, schema[j].scale)

\* The valueField of row r overflows the type the dedup stage casts it to.
ValueOverflows(r, t) ==
  LET v == IF t = "billionaires" THEN r.finalWorth ELSE r.numberOfShares
  IN  \/ PrecisionOverflow(v, sort_scale(t))
      \/ RangeOverflow(v, DecimalPrecision, sort_scale(t))

----------------------------------------------------------------------------
(* Properties.                                                             *)

\* C1: after clean_and_deduplicate and then convert_to_parquet, the output
\* never holds two records with the same canonical (typed) identity fields.
C1_NoDuplicateCanonicalKey ==
  pc = "converted" =>
    \A i, j \in 1..Len(df_final) :
      i # j => CanonicalKey(df_final[i], dataset_type) # CanonicalKey(df_final[j], dataset_type)

\* C2: the output of clean_and_deduplicate holds exactly one record for each
\* DedupKey among the rows that survive the garbage filter: no key twice, no
\* surviving key lost.
C2_OneRecordPerKey ==
  pc = "deduped" =>
    /\ \A i, j \in 1..Len(deduped) :
         i # j => DedupKey(deduped[i], dataset_type) # DedupKey(deduped[j], dataset_type)
    /\ \A i \in 1..Len(df_clean) :
         \E j \in 1..Len(deduped) :
           DedupKey(deduped[j], dataset_type) = DedupKey(df_clean[i], dataset_type)

\* C3: in a DedupKey group with a non-null valueField, the kept record has
\* the largest valueField of the group, compared as exact decimals.
C3_KeepsMaximum ==
  pc = "deduped" =>
    \A j \in 1..Len(deduped), i \in 1..Len(df_clean) :
      /\ DedupKey(df_clean[i], dataset_type) = DedupKey(deduped[j], dataset_type)
      /\ ~IsNull(ValueOf(df_clean[i], dataset_type))
      => /\ ~IsNull(ValueOf(deduped[j], dataset_type))
         /\ ~DecLess(Get(ValueOf(deduped[j], dataset_type)),
                     Get(ValueOf(df_clean[i], dataset_type)))

\* C4: a record with a null (or empty) valueField is kept for its DedupKey
\* only if every record of the group has a null valueField.
C4_NullSortsLast ==
  pc = "deduped" =>
    \A j \in 1..Len(deduped) :
      IsNull(ValueOf(deduped[j], dataset_type)) =>
        \A i \in 1..Len(df_clean) :
          DedupKey(df_clean[i], dataset_type) = DedupKey(deduped[j], dataset_type)
          => IsNull(ValueOf(df_clean[i], dataset_type))

\* C5: among the records of a group that tie on valueField with the kept
\* one, the kept record is the one first seen in the input.
C5_FirstSeenWins ==
  pc = "deduped" =>
    \A j \in 1..Len(deduped) :
      LET ties == {i \in 1..Len(df_clean) :
                     /\ DedupKey(df_clean[i], dataset_type) = DedupKey(deduped[j], dataset_type)
                     /\ ValueOf(df_clean[i], dataset_type) = ValueOf(deduped[j], dataset_type)}
      IN  \A i \in ties : (\A k \in ties : i <= k) => deduped[j] = df_clean[i]

\* C6: the garbage filter drops a row if and only if all its identity-name
\* fields are null or empty (personName and lastName for billionaires,
\* personName for assets); the rows it keeps are kept once each, in their
\* order, and no dropped row is in any output.
C6_GarbageFilter ==
  pc # "read" =>
    /\ \A i \in 1..Len(df) :
         Garbage(df[i], dataset_type) <=> ~(\E j \in 1..Len(df_clean) : df_clean[j] = df[i])
    /\ Len(df_clean) = Cardinality({i \in 1..Len(df) : ~Garbage(df[i], dataset_type)})
    /\ \A j \in 1..Len(deduped) : ~Garbage(deduped[j], dataset_type)
    /\ \A j \in 1..Len(rededuped) : ~Garbage(rededuped[j], dataset_type)

\* C6 witness: a billionaires run has deduplicated a file in which one row
\* misses both names and was dropped, and another misses exactly one name
\* and is in the output.
C6_Witness ==
  /\ pc = "deduped"
  /\ dataset_type = "billionaires"
  /\ \E i \in 1..Len(df) :
       /\ NameMissing(df[i].personName) /\ NameMissing(df[i].lastName)
       /\ \A j \in 1..Len(df_clean) : df_clean[j] # df[i]
  /\ \E j \in 1..Len(deduped) :
       NameMissing(deduped[j].personName) # NameMissing(deduped[j].lastName)

\* C7: clean_and_deduplicate applied to its own output returns that output:
\* same records, same order.
C7_Idempotent ==
  pc = "rededuped" => rededuped = deduped

\* C8: two rows get the same dedup_key if and only if their identity fields
\* are pairwise equal, null counted as the empty text.
C8_KeyInjective ==
  pc = "deduped" =>
    \A i, j \in 1..Len(df_clean) :
      (dedup_key(df_clean[i], dataset_type) = dedup_key(df_clean[j], dataset_type))
      <=> (IdentityOf(df_clean[i], dataset_type) = IdentityOf(df_clean[j], dataset_type))

\* C9: a decimal literal that overflows its column is always surfaced as an
\* error: the canonicalizer never completes on a file that holds one.
C9_OverflowSurfaced ==
  pc = "converted" =>
    \A i \in 1..Len(deduped) : ~RowOverflows(deduped[i], target_schema(dataset_type))

\* C10: a decimal overflow fails only its own row: in both stages every row
\* without an overflow is still processed and output (after deduplication
\* its group still has its record, after conversion its typed record is
\* written), whether or not another row overflows.
C10_OverflowFailsOnlyRow ==
  /\ pc \in {"deduped", "dedup_failed"} =>
       \A i \in 1..Len(df_clean) :
         ~ValueOverflows(df_clean[i], dataset_type) =>
           \E j \in 1..Len(deduped) :
             dedup_key(deduped[j], dataset_type) = dedup_key(df_clean[i], dataset_type)
  /\ pc \in {"converted", "convert_failed"} =>
       \A i \in 1..Len(deduped) :
         ~RowOverflows(deduped[i], target_schema(dataset_type)) =>
           \E j \in 1..Len(df_final) :
             df_final[j] = typed_row(deduped[i], target_schema(dataset_type))

----------------------------------------------------------------------------
(* Vocabulary of the properties of the conversion.                         *)

\* The Decimal fields of the schema that are columns of the file.
DecimalColumns ==
  {f \in {target_schema(dataset_type)[j] : j \in 1..Len(target_schema(dataset_type))} :
     f.dtype = "Decimal" /\ \E k \in 1..Len(columns) : columns[k] = f.name}

\* The text of an exact decimal: its sign, its integer digits ("0" when it
\* has none), and after a "." its fractional digits, as many as its scale.
FormatDecimal(v) ==
  (IF v.neg THEN <<"-">> ELSE << >>)
  \o (IF Len(v.int) = 0 THEN <<"0">> ELSE v.int)
  \o (IF Len(v.frac) = 0 THEN << >> ELSE <<".">> \o v.frac)

\* The text s with zeros appended up to scale fractional digits.
PadToScale(s, scale) ==
  IF DotPos(s) = 0 THEN s \o <<".">> \o Zeros(scale)
  ELSE s \o Zeros(scale - FractionDigits(s))

\* The digits of s before and after its ".", the sign left out.
IntegerPart(s) ==
  LET body == IF Len(s) > 0 /\ s[1] = "-" THEN Tail(s) ELSE s
  IN  IF DotPos(body) = 0 THEN body ELSE SubSeq(body, 1, DotPos(body) - 1)

FractionPart(s) == IF DotPos(s) = 0 THEN << >> ELSE SubSeq(s, DotPos(s) + 1, Len(s))

\* A decimal string: an optional "-", integer digits, optionally a "." and
\* fractional digits.
DecimalString(s) ==
  /\ Len(IntegerPart(s)) > 0
  /\ AllDigits(IntegerPart(s))
  /\ AllDigits(FractionPart(s))
  /\ DotPos(s) # 0 => Len(FractionPart(s)) > 0

\* The precondition of the round trip as the specification words it.
FitsByDigitCount(s, precision, scale) ==
  /\ DecimalString(s)
  /\ Len(IntegerPart(s)) + Len(FractionPart(s)) <= precision
  /\ Len(FractionPart(s)) <= scale

\* A decimal string in plain form: no leading zero before another integer
\* digit, and no "-" before a zero.
PlainString(s) ==
  /\ DecimalString(s)
  /\ Len(IntegerPart(s)) > 1 => IntegerPart(s)[1] # "0"
  /\ s[1] = "-" => \E i \in 2..Len(s) : s[i] \in Digits \ {"0"}

\* A plain decimal string that fits Decimal(precision, scale).
FitsPlain(s, precision, scale) ==
  /\ PlainString(s)
  /\ Len(IntegerPart(s)) <= precision - scale
  /\ Len(FractionPart(s)) <= scale

\* Some row of the output holds in column n the decimal whose text is s.
WrittenAs(n, s) ==
  \E j \in 1..Len(df_final) :
    ~IsNull(df_final[j][n]) /\ FormatDecimal(Get(df_final[j][n])) = s

----------------------------------------------------------------------------
(* Properties of the conversion.                                           *)

\* C11 as stated: every decimal string with at most precision digits and
\* at most scale fractional digits is parsed, and its value written back as
\* text is the string zero-padded to scale fractional digits.
C11_RoundTrip ==
  /\ (pc = "convert_failed" /\ \A k \in 1..Len(columns) : columns[k] # "birthDate") =>
       \E i \in 1..Len(deduped), f \in DecimalColumns :
         /\ ~IsNull(empty_to_null(deduped[i][f.name]))
         /\ ~FitsByDigitCount(Get(deduped[i][f.name]), DecimalPrecision, f.scale)
  /\ pc = "converted" =>
       \A i \in 1..Len(deduped), f \in DecimalColumns :
         (/\ ~IsNull(deduped[i][f.name])
          /\ FitsByDigitCount(Get(deduped[i][f.name]), DecimalPrecision, f.scale))
         => WrittenAs(f.name, PadToScale(Get(deduped[i][f.name]), f.scale))

\* C11 amended: every plain decimal string with at most precision - scale
\* integer digits and at most scale fractional digits is parsed, and its
\* value written back as text is the string zero-padded to scale
\* fractional digits.
C11_RoundTripPlain ==
  /\ (pc = "convert_failed" /\ \A k \in 1..Len(columns) : columns[k] # "birthDate") =>
       \E i \in 1..Len(deduped), f \in DecimalColumns :
         /\ ~IsNull(empty_to_null(deduped[i][f.name]))
         /\ ~FitsPlain(Get(deduped[i][f.name]), DecimalPrecision, f.scale)
  /\ pc = "converted" =>
       \A i \in 1..Len(deduped), f \in DecimalColumns :
         (/\ ~IsNull(deduped[i][f.name])
          /\ FitsPlain(Get(deduped[i][f.name]), DecimalPrecision, f.scale))
         => WrittenAs(f.name, PadToScale(Get(deduped[i][f.name]), f.scale))

\* C11: a plain decimal string with fewer fractional digits than the scale
\* was converted and written.
C11_Witness ==
  /\ pc = "converted"
  /\ \E i \in 1..Len(deduped), f \in DecimalColumns :
       /\ ~IsNull(deduped[i][f.name])
       /\ FitsPlain(Get(deduped[i][f.name]), DecimalPrecision, f.scale)
       /\ Len(FractionPart(Get(deduped[i][f.name]))) < f.scale
       /\ WrittenAs(f.name, PadToScale(Get(deduped[i][f.name]), f.scale))

\* The decimal v holds the digits of the text s and no others: the integer
\* digits of s without leading zeros, and the fractional digits of s cut or
\* zero-padded to the length of its own.
SameDigits(v, s) ==
  /\ v.int = StripZeros(IntegerPart(s))
  /\ \A k \in 1..Len(v.frac) :
       v.frac[k] = (IF k <= Len(FractionPart(s)) THEN FractionPart(s)[k] ELSE "0")

\* C12: in both stages every Decimal column is held as text from the read
\* of the file until its cast (no reader ever types it as a float), and the
\* decimal written for a cell holds the very digits of the cell's text.
C12_TextUntilCast ==
  /\ \A c \in DOMAIN dtypes :
       (\E f \in DecimalColumns : f.name = c) => dtypes[c] = "Utf8"
  /\ pc = "converted" =>
       \A j \in 1..Len(df_final), f \in DecimalColumns :
         ~IsNull(df_final[j][f.name]) =>
           \E i \in 1..Len(deduped) :
             /\ ~IsNull(deduped[i][f.name])
             /\ SameDigits(Get(df_final[j][f.name]), Get(deduped[i][f.name]))

\* C12 witness: both reads have typed a Decimal column as text and a decimal
\* cast from it was written.
C12_Witness ==
  /\ pc = "converted"
  /\ \E j \in 1..Len(df_final), f \in DecimalColumns :
       /\ dtypes[f.name] = "Utf8"
       /\ ~IsNull(df_final[j][f.name])

\* n is a column of the file.
HasColumn(n) == \E k \in 1..Len(columns) : columns[k] = n

\* C13: a schema field that is no column of the file never fails the
\* conversion and is written as null in every record: a failed conversion
\* always has a non-null cell in a column the file does have.
C13_MissingColumnNull ==
  /\ pc = "converted" =>
       \A n \in FieldNames(target_schema(dataset_type)) :
         ~HasColumn(n) => \A j \in 1..Len(df_final) : IsNull(df_final[j][n])
  /\ pc = "convert_failed" =>
       \E i \in 1..Len(deduped), n \in FieldNames(target_schema(dataset_type)) :
         HasColumn(n) /\ ~IsNull(deduped[i][n])

\* C13 witness: a billionaires file without the state column was converted
\* and its records, which hold a date, hold null for state.
C13_Witness ==
  /\ pc = "converted"
  /\ dataset_type = "billionaires"
  /\ ~HasColumn("state")
  /\ Len(df_final) > 0
  /\ \A j \in 1..Len(df_final) : ~IsNull(df_final[j].date) /\ IsNull(df_final[j].state)

\* The identity fields and the value field of the dedup stage.
DedupFields(t) ==
  {IdentityFields(t)[i] : i \in 1..Len(IdentityFields(t))}
  \cup {IF t = "billionaires" THEN "finalWorth" ELSE "numberOfShares"}

\* C14: clean_and_deduplicate completes on a file that lacks an identity
\* column or the value column.
C14_AbsentColumnTolerated ==
  (pc # "read" /\ \E n \in DedupFields(dataset_type) : ~HasColumn(n)) => pc = "deduped"

\* The days from 1970-01-01 to the calendar day <<y, m, d>>.
DaysFromCivil(date) ==
  LET y   == IF date[2] <= 2 THEN date[1] - 1 ELSE date[1]
      era == y \div 400
      yoe == y - era * 400
      mp  == IF date[2] > 2 THEN date[2] - 3 ELSE date[2] + 9
      doy == ((153 * mp + 2) \div 5) + date[3] - 1
      doe == yoe * 365 + (yoe \div 4) - (yoe \div 100) + doy
  IN  era * 146097 + doe - 719468

\* s is YYYY-MM-DD and names a day of the calendar.
ValidDashed(s) ==
  /\ Len(s) = 10
  /\ s[5] = "-" /\ s[8] = "-"
  /\ \A k \in {1, 2, 3, 4, 6, 7, 9, 10} : s[k] \in Digits
  /\ Number(SubSeq(s, 6, 7)) \in 1..12
  /\ Number(SubSeq(s, 9, 10))
       \in 1..DaysInMonth(Number(SubSeq(s, 1, 4)), Number(SubSeq(s, 6, 7)))

\* C15: a birthDate of digits only is written as the day that lies
\* floor(ms / 86400000) days after 1970-01-01, and any other birthDate that
\* is a valid YYYY-MM-DD is written as that very day.
C15_BirthDate ==
  (pc \in {"converted", "convert_failed"} /\ HasColumn("birthDate")) =>
    \A i \in 1..Len(deduped) :
      LET o == deduped[i].birthDate
      IN  /\ (~IsNull(o) /\ Len(Get(o)) > 0 /\ AllDigits(Get(o))) =>
               /\ pc = "converted"
               /\ \E j \in 1..Len(df_final) :
                    /\ ~IsNull(df_final[j].birthDate)
                    /\ DaysFromCivil(Get(df_final[j].birthDate))
                         = DivDigits(Get(o), MsPerDay, 0, 0)
          /\ (~IsNull(o) /\ ValidDashed(Get(o))) =>
               /\ pc = "converted"
               /\ \E j \in 1..Len(df_final) :
                    df_final[j].birthDate
                      = Some(<<Number(SubSeq(Get(o), 1, 4)), Number(SubSeq(Get(o), 6, 7)),
                               Number(SubSeq(Get(o), 9, 10))>>)

\* C16: no birthDate text fails the conversion: a failed conversion always
\* has a non-empty cell in a Decimal column.
C16_BirthDateNonFatal ==
  pc = "convert_failed" =>
    \E i \in 1..Len(deduped), f \in DecimalColumns :
      ~IsNull(empty_to_null(deduped[i][f.name]))

\* s is YYYYMMDD and names a day of the calendar.
ValidYmd(s) ==
  /\ Len(s) = 8
  /\ AllDigits(s)
  /\ Number(SubSeq(s, 5, 6)) \in 1..12
  /\ Number(SubSeq(s, 7, 8))
       \in 1..DaysInMonth(Number(SubSeq(s, 1, 4)), Number(SubSeq(s, 5, 6)))

\* The rows of the file whose date is a text that is no valid YYYYMMDD.
DateParseErrors ==
  {i \in 1..Len(deduped) : ~IsNull(deduped[i].date) /\ ~ValidYmd(Get(deduped[i].date))}

\* C17: a date that is no valid YYYYMMDD does not fail the conversion: every
\* row is written, as many rows with a null date as the file has rows with
\* a null or invalid date, and the run reports the number of invalid dates.
C17_DateParseErrorReported ==
  (pc = "converted" /\ HasColumn("date")) =>
    /\ Len(df_final) = Len(deduped)
    /\ Cardinality({j \in 1..Len(df_final) : IsNull(df_final[j].date)})
         = Cardinality({i \in 1..Len(deduped) : IsNull(deduped[i].date)} \cup DateParseErrors)
    /\ DateParseErrors # {} =>
         \E k \in 1..Len(report) :
           report[k] = [item |-> "date_errors", rows |-> Cardinality(DateParseErrors)]

\* The two literal sets of the Boolean parse.
TrueTexts == {<<"T", "r", "u", "e">>, <<"t", "r", "u", "e">>, <<"1">>, <<"T", "R", "U", "E">>}
FalseTexts ==
  {<<"F", "a", "l", "s", "e">>, <<"f", "a", "l", "s", "e">>, <<"0">>,
   <<"F", "A", "L", "S", "E">>}

\* The Boolean the specification reads from an optional text.
BoolOf(o) ==
  IF IsNull(o) THEN Null
  ELSE IF Get(o) \in TrueTexts THEN Some(TRUE)
  ELSE IF Get(o) \in FalseTexts THEN Some(FALSE)
  ELSE Null

\* The number of records of frame d that hold v in column n.
CountOf(d, n, v) == Cardinality({j \in 1..Len(d) : d[j][n] = v})

\* C18: the interactive column is written true for the four true literals,
\* false for the four false literals and null for every other text, for a
\* null cell and for an absent column: the output holds each of the three
\* values as often as the file holds a text read as it.
C18_BooleanParse ==
  (pc = "converted" /\ dataset_type = "assets") =>
    IF HasColumn("interactive")
    THEN \A v \in {Null, Some(TRUE), Some(FALSE)} :
           CountOf(df_final, "interactive", v)
             = Cardinality({i \in 1..Len(deduped) : BoolOf(deduped[i].interactive) = v})
    ELSE \A j \in 1..Len(df_final) : IsNull(df_final[j].interactive)

\* C18 witness: a file with "TRUE" and "tRuE" was converted to one true and
\* one null.
C18_Witness ==
  /\ pc = "converted"
  /\ HasColumn("interactive")
  /\ \E i, k \in 1..Len(deduped) :
       /\ deduped[i].interactive = Some(<<"T", "R", "U", "E">>)
       /\ deduped[k].interactive = Some(<<"t", "R", "u", "E">>)
  /\ CountOf(df_final, "interactive", Some(TRUE)) = 1
  /\ CountOf(df_final, "interactive", Null) = 1

\* C19: the columns of the output are the fields of the schema in their
\* declared order, and every record has these fields and no other, whatever
\* the columns of the file and their order.
C19_SchemaColumns ==
  pc = "converted" =>
    /\ Len(final_columns) = Len(target_schema(dataset_type))
    /\ \A k \in 1..Len(final_columns) :
         final_columns[k] = target_schema(dataset_type)[k].name
    /\ \A j \in 1..Len(df_final) :
         DOMAIN df_final[j] = {final_columns[k] : k \in 1..Len(final_columns)}

\* C19 witness: a file with the columns personName, rank, date, in that
\* order, was converted: a column outside the schema, and the schema's
\* columns in another order.
C19_Witness ==
  /\ pc = "converted"
  /\ columns = <<"personName", "rank", "date">>
  /\ Len(df_final) > 0
  /\ final_columns[1] = "date" /\ final_columns[2] = "personName"

\* C20: the sort only permutes: every record is in the output as often as
\* in the typed frame, and without sort columns the order is the typed
\* frame's.
C20_SortPermutes ==
  pc = "converted" =>
    LET typed == df_typed(columns, deduped, target_schema(dataset_type))
    IN  /\ Len(df_final) = Len(typed)
        /\ \A i \in 1..Len(typed) :
             Cardinality({j \in 1..Len(df_final) : df_final[j] = typed[i]})
               = Cardinality({j \in 1..Len(typed) : typed[j] = typed[i]})
        /\ sort_by = << >> => df_final = typed

\* C20 witness: a sort by some columns has changed the order of two records,
\* one of them with a null in the first sort column.
C20_Witness ==
  /\ pc = "converted"
  /\ sort_by # << >>
  /\ Len(df_final) = 2
  /\ df_final # df_typed(columns, deduped, target_schema(dataset_type))
  /\ IsNull(df_final[1][sort_by[1]])

\* The order the specification gives one key column: ascending, with null
\* after every other value.
NullsLastBefore(f, a, b) ==
  \/ ~IsNull(a) /\ IsNull(b)
  \/ ~IsNull(a) /\ ~IsNull(b) /\ TypedBefore(f, a, b)

\* Record x comes strictly before record y in that order of the key list.
CompactorBefore(x, y, schema, cols) ==
  \E i \in 1..Len(cols) :
    /\ \A j \in 1..(i - 1) : x[cols[j]] = y[cols[j]]
    /\ NullsLastBefore(FieldOf(schema, cols[i]), x[cols[i]], y[cols[i]])

\* C21: the sorted output is in lexicographic order of the key columns,
\* each ascending with its nulls after its other values: no record comes
\* after one it should precede.
C21_NullsLastOrder ==
  (pc = "converted" /\ sort_by # << >>) =>
    \A i, j \in 1..Len(df_final) :
      i < j => ~CompactorBefore(df_final[j], df_final[i], target_schema(dataset_type),
                                sort_by)

\* Records x and y are equal on every key column.
SameKeys(x, y, cols) == \A k \in 1..Len(cols) : x[cols[k]] = y[cols[k]]

\* C22: the sort is stable: two different records, each once in the typed
\* frame and equal on every key column, are in the output in the order
\* they have in the typed frame.
C22_StableSort ==
  (pc = "converted" /\ sort_by # << >>) =>
    LET typed == df_typed(columns, deduped, target_schema(dataset_type))
    IN  \A i, j \in 1..Len(typed) :
          (/\ i < j
           /\ typed[i] # typed[j]
           /\ SameKeys(typed[i], typed[j], sort_by)
           /\ Cardinality({k \in 1..Len(typed) : typed[k] = typed[i]}) = 1
           /\ Cardinality({k \in 1..Len(typed) : typed[k] = typed[j]}) = 1)
          => \E a, b \in 1..Len(df_final) :
               a < b /\ df_final[a] = typed[i] /\ df_final[b] = typed[j]

\* C23: when one of the two input files is missing, no row of either file
\* is processed, no output file is written, and the run does not succeed.
C23_MissingFileAborts ==
  (script # "none" /\ (IsNull(inputs.billionaires) \/ IsNull(inputs.assets))) =>
    /\ processed = {}
    /\ IsNull(outputs.billionaires) /\ IsNull(outputs.assets)
    /\ pc \in {"start", "failed"}

\* C24: every null identity field, date included, counts as the empty text
\* in the key: the key of every kept row is the join of its identity texts,
\* and of two rows with a null date and different personName both have
\* their record in the output.
C24_NullDateKey ==
  pc = "deduped" =>
    /\ \A i \in 1..Len(df_clean) :
         dedup_key(df_clean[i], dataset_type) = Some(DedupKey(df_clean[i], dataset_type))
    /\ \A i, k \in 1..Len(df_clean) :
         (/\ IsNull(df_clean[i].date) /\ IsNull(df_clean[k].date)
          /\ TextOf(df_clean[i].personName) # TextOf(df_clean[k].personName))
         => \E j \in 1..Len(deduped) :
              /\ IsNull(deduped[j].date)
              /\ deduped[j].personName = df_clean[i].personName

\* C25: every record clean_and_deduplicate returns is a row of its input
\* with every text unchanged, and has the columns of the input and no
\* other.
C25_KeptRecordsUntouched ==
  pc = "deduped" =>
    \A j \in 1..Len(deduped) :
      /\ \E i \in 1..Len(df) : deduped[j] = df[i]
      /\ DOMAIN deduped[j] = {columns[k] : k \in 1..Len(columns)}

\* C25 witness: a file of two rows was deduplicated to one, whose value
\* text is not in the form the cast would give it.
C25_Witness ==
  /\ pc = "deduped"
  /\ dataset_type = "billionaires"
  /\ Len(df) = 2
  /\ Len(deduped) = 1
  /\ deduped[1].finalWorth = Some(Worth5Short)

\* A negative epoch in milliseconds: a minus sign and digits, few enough
\* for a 64-bit integer whatever they are.
NegativeEpochText(s) ==
  Len(s) \in 2..19 /\ s[1] = "-" /\ AllDigits(Tail(s))

\* C26: a birthDate that is a negative epoch is not read as a timestamp and
\* is written as null: a completed conversion holds as many null birthDates
\* as the file has null or negative-epoch ones, and a failed conversion
\* always has a cell that is neither.
C26_NegativeEpochNull ==
  /\ (pc = "converted" /\ HasColumn("birthDate")) =>
       Cardinality({j \in 1..Len(df_final) : IsNull(df_final[j].birthDate)})
         = Cardinality({i \in 1..Len(deduped) :
                          \/ IsNull(deduped[i].birthDate)
                          \/ NegativeEpochText(Get(deduped[i].birthDate))})
  /\ (pc = "convert_failed" /\ HasColumn("birthDate")) =>
       \E i \in 1..Len(deduped) :
         /\ ~IsNull(deduped[i].birthDate)
         /\ ~NegativeEpochText(Get(deduped[i].birthDate))

\* C26 witness: a file with a negative epoch and an epoch of the year 2000
\* was converted to one null and one date.
C26_Witness ==
  /\ pc = "converted"
  /\ HasColumn("birthDate")
  /\ Len(deduped) = 2
  /\ deduped[1].birthDate = Some(NegativeEpoch)
  /\ deduped[2].birthDate = Some(Epoch2000)
  /\ \E j \in 1..2 : IsNull(df_final[j].birthDate)
  /\ \E j \in 1..2 : df_final[j].birthDate = Some(<<2000, 1, 1>>)

\* C27: the file name of a snapshot depends on the snapshot alone, over all
\* runs, and a snapshot is skipped only when its own content is in the
\* output directory.
C27_NameOfSnapshot ==
  /\ \A x, y \in named : x[1] = y[1] => x[2] = y[2]
  /\ \A x \in skipped : \E n \in DOMAIN files : files[n] = x[1]

====
